---------------------------- MODULE Spec2Model ----------------------------
(***************************************************************************)
(* Model of sliderule/io.py: export of a geodataframe to netCDF3 and HDF5  *)
(* (pytables and h5py drivers) and import of the written files.            *)
(*                                                                         *)
(* One call of to_file is followed by at most one call of from_file on the *)
(* same path. Every function of io.py is a chain of actions, one per       *)
(* statement group, so that the open file handle, the partly written file  *)
(* and an exception leaving the call are all states of the model.          *)
(*                                                                         *)
(* Numbers. TLC's integers are 32 bits wide, so                            *)
(*   - a uint32 cell is the pair <<hi, lo>> of its 16-bit halves,          *)
(*   - every other cell (float64, int32) is an integer,                    *)
(*   - an element stored in a file is its two 16-bit words in storage      *)
(*     order (netCDF3 stores big-endian),                                  *)
(*   - a count of nanoseconds is [sec, nsec], worth sec * 10^9 + nsec.     *)
(***************************************************************************)
EXTENDS Integers, Sequences, FiniteSets, TLC

VARIABLES
    gdf,      \* the caller's geodataframe
    pc,       \* position of the running call
    call,     \* arguments of the running call: format and **kwargs
    df,       \* the writer's pandas dataframe (local of to_nc / to_hdf)
    k,        \* position of the writer's loop over df.items()
    disk,     \* the file at `filename`
    handles,  \* file objects that are open
    raised,   \* exception that left the last call, or "none"
    rcall,    \* arguments of the from_file call
    loaded,   \* the reader's dictionary of variables (nc / h5 local)
    ret       \* value returned by from_file

vars == <<gdf, pc, call, df, k, disk, handles, raised, rcall, loaded, ret>>

(***************************************************************************)
(* Bounds of the model                                                     *)
(***************************************************************************)
MaxRows == 2
MaxPolys == 2

(***************************************************************************)
(* Small helpers                                                           *)
(***************************************************************************)
EmptyMap == [x \in {} |-> TRUE]

Range(s) == {s[i] : i \in 1..Len(s)}

HalfWord == 2^16

(***************************************************************************)
(* get_attributes(): file level keys hold strings, variable keys hold a    *)
(* dictionary of attributes. Both live in one dictionary.                  *)
(***************************************************************************)
FileLevelAttributes ==
    [featureType          |-> "trajectory",
     title                |-> "ATLAS/ICESat-2 SlideRule Height",
     reference            |-> "https://doi.org/10.5281/zenodo.5484048",
     date_created         |-> "datetime.datetime.now().isoformat()",
     geospatial_lat_units |-> "degrees_north",
     geospatial_lon_units |-> "degrees_east",
     geospatial_ellipsoid |-> "WGS84",
     date_type            |-> "UTC",
     time_type            |-> "CCSDS UTC-A"]

VariableAttributes ==
    [segment_id |-> [long_name |-> "Along-track segment ID number",
                     coordinates |-> "latitude longitude"],
     delta_time |-> [units |-> "seconds since 2018-01-01",
                     long_name |-> "Elapsed GPS seconds",
                     standard_name |-> "time",
                     calendar |-> "standard",
                     coordinates |-> "latitude longitude"],
     latitude |-> [units |-> "degrees_north",
                   long_name |-> "Latitude",
                   standard_name |-> "latitude",
                   valid_min |-> -90,
                   valid_max |-> 90],
     longitude |-> [units |-> "degrees_east",
                    long_name |-> "Longitude",
                    standard_name |-> "longitude",
                    valid_min |-> -180,
                    valid_max |-> 180],
     h_mean |-> [units |-> "meters",
                 long_name |-> "Height Mean",
                 coordinates |-> "latitude longitude"],
     h_sigma |-> [units |-> "meters",
                  long_name |-> "Height Error",
                  coordinates |-> "latitude longitude"],
     rms_misfit |-> [units |-> "meters",
                     long_name |-> "RMS of fit",
                     coordinates |-> "latitude longitude"],
     dh_fit_dx |-> [units |-> "meters/meters",
                    contentType |-> "modelResult",
                    long_name |-> "Along Track Slope",
                    coordinates |-> "latitude longitude"],
     dh_fit_dy |-> [units |-> "meters/meters",
                    long_name |-> "Across Track Slope",
                    coordinates |-> "latitude longitude"],
     n_fit_photons |-> [units |-> "1",
                        long_name |-> "Number of Photons in Fit",
                        coordinates |-> "latitude longitude"],
     w_surface_window_final |-> [units |-> "meters",
                                 long_name |-> "Surface Window Width",
                                 coordinates |-> "latitude longitude"],
     h_robust_sprd |-> [units |-> "meters",
                        long_name |-> "Robust Spread",
                        coordinates |-> "latitude longitude"],
     cycle |-> [long_name |-> "Orbital cycle",
                coordinates |-> "latitude longitude"],
     rgt |-> [long_name |-> "Reference Ground Track",
              coordinates |-> "latitude longitude"],
     gt |-> [long_name |-> "Ground track identifier",
             flag_values |-> <<10, 20, 30, 40, 50, 60>>,
             flag_meanings |-> "GT1L, GT1R, GT2L, GT2R, GT3L, GT3R",
             valid_min |-> 10,
             valid_max |-> 60],
     spot |-> [long_name |-> "ATLAS spot number",
               coordinates |-> "latitude longitude",
               valid_min |-> 1,
               valid_max |-> 6],
     pflags |-> [long_name |-> "Processing Flags",
                 coordinates |-> "latitude longitude",
                 flag_values |-> <<0, 1, 2, 4>>,
                 flag_meanings |-> "valid, spread too short, too few photons, max iterations reached",
                 valid_min |-> 0,
                 valid_max |-> 4]]

get_attributes == FileLevelAttributes @@ VariableAttributes

\* attributes[key].items() of lines 185, 336 and 348: the variable's
\* attributes, or the exception the expression raises.
SchemaItems(attributes, key) ==
    IF key \notin DOMAIN attributes
    THEN [raises |-> "KeyError", items |-> EmptyMap]
    ELSE IF key \in DOMAIN FileLevelAttributes
         THEN [raises |-> "AttributeError", items |-> EmptyMap]
         ELSE [raises |-> "none", items |-> attributes[key]]

(***************************************************************************)
(* coordinates(polygon)                                                    *)
(***************************************************************************)
\* coordinates with x taken from 'lat' and y from 'lon'
coordinates_swapped(polygon) ==
    <<[i \in 1..Len(polygon) |-> polygon[i].lat],
      [i \in 1..Len(polygon) |-> polygon[i].lon]>>

coordinates(polygon) ==
    <<[i \in 1..Len(polygon) |-> polygon[i].lon],
      [i \in 1..Len(polygon) |-> polygon[i].lat]>>

\* 'poly{0:d}_x'.format(i)
PolyAttrName(i, axis) == "poly" \o ToString(i) \o "_" \o axis


(***************************************************************************)
(* Numbers: 16-bit words, two's complement, byte order                     *)
(***************************************************************************)
\* The two 16-bit words, most significant first, of a signed 32-bit value.
WordsOf(v) == <<(v \div HalfWord) % HalfWord, v % HalfWord>>

\* The signed 32-bit value of two 16-bit words, most significant first.
Int32Of(w) ==
    IF w[1] < HalfWord \div 2
    THEN w[1] * HalfWord + w[2]
    ELSE (w[1] - HalfWord) * HalfWord + w[2]

\* A cast that clips at the largest int32 instead of wrapping
AsTypeInt32Saturating(u) ==
    IF u[1] < HalfWord \div 2
    THEN u[1] * HalfWord + u[2]
    ELSE (HalfWord \div 2 - 1) * HalfWord + (HalfWord - 1)

\* val.astype(np.int32) of line 180 on one uint32 cell <<hi, lo>>: the same
\* 32 bits read as a signed number.
AsTypeInt32(u) == Int32Of(u)

\* np.issubdtype(val, np.unsignedinteger) of line 178.
IsUnsigned(dtype) == dtype \in {"u1", "u2", "u4", "u8"}

\* An ndarray is [ndim, byteorder, mem]: mem holds each element's words in
\* memory order. ">" is big-endian, "<" little-endian (native).
ElementValue(byteorder, m) ==
    IF byteorder = ">" THEN Int32Of(m) ELSE Int32Of(<<m[2], m[1]>>)

ArrayValues(a) == [i \in 1..Len(a.mem) |-> ElementValue(a.byteorder, a.mem[i])]

\* ndarray.byteswap(): the bytes of every element are reversed, the dtype
\* keeps its byte order.
ByteSwap(a) == [a EXCEPT !.mem = [i \in 1..Len(a.mem) |-> <<a.mem[i][2], a.mem[i][1]>>]]

\* ndarray.newbyteorder(): the dtype's byte order is flipped, the bytes stay.
NewByteOrder(a) == [a EXCEPT !.byteorder = IF a.byteorder = ">" THEN "<" ELSE ">"]

\* ndarray.squeeze(): axes of length one are removed, so a one-element
\* vector becomes a 0-d array.
Squeeze(a, n) == [a EXCEPT !.ndim = IF n = 1 THEN 0 ELSE 1]

(***************************************************************************)
(* Time: np.datetime64 / timedelta64[ns] as [sec, nsec]                    *)
(***************************************************************************)
NsPerSec == 10^9

\* Days from 1970-01-01 to the civil date y-m-d (proleptic Gregorian), the
\* count behind np.datetime64(datetime.datetime(y, m, d)).
DaysFromCivil(y, m, d) ==
    LET yy  == IF m <= 2 THEN y - 1 ELSE y
        era == yy \div 400
        yoe == yy - era * 400
        mp  == IF m > 2 THEN m - 3 ELSE m + 9
        doy == (153 * mp + 2) \div 5 + d - 1
        doe == yoe * 365 + yoe \div 4 - yoe \div 100 + doy
    IN  era * 146097 + doe - 719468

SecondsPerDay == 24 * 60 * 60

\* The GPS epoch in place of the ATLAS SDP epoch
gps_epoch == [sec |-> DaysFromCivil(1980, 1, 6) * SecondsPerDay, nsec |-> 0]

\* atlas_sdp_epoch = np.datetime64(datetime.datetime(2018, 1, 1))
atlas_sdp_epoch == [sec |-> DaysFromCivil(2018, 1, 1) * SecondsPerDay, nsec |-> 0]

\* The factor 1e9 of (delta_time*1e9).astype('timedelta64[ns]').
NsFactor == 1000000000

\* count * factor nanoseconds as [sec, nsec]; the product itself is wider
\* than 32 bits, so it is formed from the factor's two parts.
ScaleToNs(count, factor) ==
    LET whole == factor \div NsPerSec
        part  == factor % NsPerSec
    IN  [sec  |-> count * whole + (count * part) \div NsPerSec,
         nsec |-> (count * part) % NsPerSec]

\* (delta_time*1e9).astype('timedelta64[ns]')
DeltaTimeNs(delta_time) == ScaleToNs(delta_time, NsFactor)

\* datetime64 + timedelta64
AddNs(t, d) ==
    [sec  |-> t.sec + d.sec + (t.nsec + d.nsec) \div NsPerSec,
     nsec |-> (t.nsec + d.nsec) % NsPerSec]

\* pd.to_datetime(atlas_sdp_epoch + delta_time) for a column of delta_time
TimeColumn(delta_times) ==
    [i \in 1..Len(delta_times) |-> AddNs(atlas_sdp_epoch, DeltaTimeNs(delta_times[i]))]

TimeLeq(a, b) == a.sec < b.sec \/ (a.sec = b.sec /\ a.nsec <= b.nsec)

IsSorted(index) ==
    \A i \in 1..Len(index) : \A j \in 1..Len(index) : i < j => TimeLeq(index[i], index[j])

(***************************************************************************)
(* Frames. A geodataframe is [cols, data, dtype, geometry, index]; a       *)
(* pandas dataframe is the same without geometry.                          *)
(***************************************************************************)
NRows(t) == Len(t.index)

\* Permutations of 1..n that put `index` in ascending order: the orders
\* sort_index may leave the rows in (equal keys in either order).
SortingPerms(index) ==
    LET n == Len(index)
    IN  {p \in [1..n -> 1..n] :
            /\ \A i \in 1..n : \E j \in 1..n : p[j] = i
            /\ \A i \in 1..n : \A j \in 1..n : i < j => TimeLeq(index[p[i]], index[p[j]])}

\* The rows of a frame taken in the order p.
Reorder(t, p) ==
    [t EXCEPT !.data = [c \in DOMAIN t.data |-> [i \in 1..Len(p) |-> t.data[c][p[i]]]],
              !.geometry = [i \in 1..Len(p) |-> t.geometry[p[i]]],
              !.index = [i \in 1..Len(p) |-> t.index[p[i]]]]

\* drop(columns='geometry', inplace=True): the frame it is called on loses
\* the column.
DropGeometryInplace(g) ==
    LET d == [cols |-> g.cols, data |-> g.data, dtype |-> g.dtype, index |-> g.index]
    IN  [result |-> d, self |-> d]

\* gdf.drop(columns='geometry'): `result` is the frame returned, `self` is
\* the frame it was called on, which drop leaves as it was.
DropGeometry(g) ==
    [result |-> [cols |-> g.cols, data |-> g.data, dtype |-> g.dtype, index |-> g.index],
     self   |-> g]

\* df['latitude'] = gdf['geometry'].values.y ; df['longitude'] = ...values.x
\* (lines 172-173, 268-269). A point is <<x, y>> = <<longitude, latitude>>.
AppendLatLon(d, geometry) ==
    [cols  |-> d.cols \o <<"latitude", "longitude">>,
     data  |-> d.data @@ ("latitude" :> [i \in 1..Len(geometry) |-> geometry[i][2]])
                      @@ ("longitude" :> [i \in 1..Len(geometry) |-> geometry[i][1]]),
     dtype |-> d.dtype @@ ("latitude" :> "f8") @@ ("longitude" :> "f8"),
     index |-> d.index]

\* geopandas.points_from_xy(x, y)
points_from_xy(x, y) == [i \in 1..Len(x) |-> <<x[i], y[i]>>]


(***************************************************************************)
(* Strings that the code lower-cases are sequences of characters.          *)
(***************************************************************************)
UpperAlphabet ==
    <<"A", "B", "C", "D", "E", "F", "G", "H", "I", "J", "K", "L", "M",
      "N", "O", "P", "Q", "R", "S", "T", "U", "V", "W", "X", "Y", "Z">>

LowerAlphabet ==
    <<"a", "b", "c", "d", "e", "f", "g", "h", "i", "j", "k", "l", "m",
      "n", "o", "p", "q", "r", "s", "t", "u", "v", "w", "x", "y", "z">>

\* str.lower()
Lower(s) ==
    [i \in 1..Len(s) |->
        IF \E j \in 1..Len(UpperAlphabet) : UpperAlphabet[j] = s[i]
        THEN LowerAlphabet[CHOOSE j \in 1..Len(UpperAlphabet) : UpperAlphabet[j] = s[i]]
        ELSE s[i]]

\* ('hdf','hdf5','h5') of lines 438 and 445
HdfFormats == {<<"h", "d", "f">>, <<"h", "d", "f", "5">>, <<"h", "5">>}

\* ('netcdf','nc') of lines 440 and 447
NcFormats == {<<"n", "e", "t", "c", "d", "f">>, <<"n", "c">>}

PyTablesDriver == <<"p", "y", "t", "a", "b", "l", "e", "s">>

H5pyDriver == <<"h", "5", "p", "y">>

(***************************************************************************)
(* Inputs of the calls                                                     *)
(***************************************************************************)
\* format arguments of to_file: two spellings of each container and one
\* string that names none.
FormatInputs ==
    {<<"n", "c">>, <<"N", "e", "t", "C", "D", "F">>,
     <<"h", "d", "f">>, <<"H", "5">>,
     <<"c", "s", "v">>}

\* format arguments of from_file
ReadFormatInputs == {<<"N", "C">>, <<"h", "d", "f", "5">>, <<"c", "s", "v">>}

\* driver keyword: left out, h5py in mixed case, or a name of no driver.
DriverInputs ==
    {EmptyMap,
     "driver" :> <<"H", "5", "p", "y">>,
     "driver" :> <<"z", "a", "r", "r">>}

\* A parameters value is [isNone, map]: Python's None or a dictionary.
PyNone == [isNone |-> TRUE, map |-> EmptyMap]

PyDict(m) == [isNone |-> FALSE, map |-> m]

\* parameters keyword: left out, None, or a dictionary with four of the ten
\* names and one name that is none of them.
ParameterInputs ==
    {EmptyMap,
     "parameters" :> PyNone,
     "parameters" :> PyDict([cnt |-> 10, len |-> 40, res |-> 20, srt |-> 3, foo |-> 1])}

\* The j-th polygon of the region pool: three points {'lon': .., 'lat': ..}.
Polygon(j) == [i \in 1..3 |-> [lon |-> 10 * j + i, lat |-> -(10 * j + i)]]

\* regions keyword: left out, or a list of 1..MaxPolys polygons.
RegionInputs ==
    {EmptyMap} \cup {"regions" :> [j \in 1..n |-> Polygon(j)] : n \in 1..MaxPolys}

WriteKwargs ==
    {d @@ p @@ r : d \in DriverInputs, p \in ParameterInputs, r \in RegionInputs}

\* kwargs.setdefault(key, default) followed by kwargs[key]
SetDefault(kwargs, key, default) ==
    IF key \in DOMAIN kwargs THEN kwargs ELSE kwargs @@ (key :> default)

\* Only the hierarchical formats are tried with a driver keyword.
WriteCalls ==
    {c \in [format : FormatInputs, kwargs : WriteKwargs] :
        "driver" \in DOMAIN c.kwargs => Lower(c.format) \in HdfFormats}

(***************************************************************************)
(* Tables handed to to_file: 1..MaxRows rows in any order, delta_time in   *)
(* whole seconds, one further column, a point per row.                     *)
(***************************************************************************)
DeltaTimeInputs == {0, 86400}

\* uint32 cells: 7 and 2^31 (the first value beyond the int32 range)
SegmentIdInputs == {<<0, 7>>, <<HalfWord \div 2, 0>>}

ColumnInputs ==
    {<<"h_mean", "delta_time">>, <<"segment_id", "delta_time">>,
     <<"delta_time", "extra">>, <<"delta_time", "title">>}

ColumnDtype(c) ==
    CASE c = "segment_id" -> "u4"
      [] c = "extra" -> "i4"
      [] c = "title" -> "i4"
      [] OTHER -> "f8"

MakeTable(cols, dts, segs) ==
    LET n == Len(dts)
    IN  [cols     |-> cols,
         data     |-> [c \in Range(cols) |->
                         CASE c = "delta_time" -> dts
                           [] c = "segment_id" -> segs
                           [] OTHER -> [i \in 1..n |-> -(100 * i)]],
         dtype    |-> [c \in Range(cols) |-> ColumnDtype(c)],
         geometry |-> [i \in 1..n |-> <<-(120 + i), 45 + i>>],
         index    |-> TimeColumn(dts)]

TableInputs ==
    UNION {
        {MakeTable(cols, dts, segs) :
            dts \in [1..n -> DeltaTimeInputs],
            segs \in IF "segment_id" \in Range(cols)
                     THEN [1..n -> SegmentIdInputs]
                     ELSE {[i \in 1..n |-> <<0, 0>>]}}
        : n \in 1..MaxRows, cols \in ColumnInputs}

(***************************************************************************)
(* Files. `disk` is the file at filename as its open handle has it: a      *)
(* container kind, netCDF dimensions, variables / datasets in creation     *)
(* order, file level attributes, and the pytables blocks.                  *)
(***************************************************************************)
NewFile(kind) ==
    [kind   |-> kind,
     dims   |-> EmptyMap,
     order  |-> <<>>,
     vars   |-> EmptyMap,
     attrs  |-> EmptyMap,
     blocks |-> EmptyMap]

NoFile == NewFile("none")

\* d[key] = value on a dictionary
Put(d, key, value) == [x \in DOMAIN d \cup {key} |-> IF x = key THEN value ELSE d[x]]

NoFrame == [cols |-> <<>>, data |-> EmptyMap, dtype |-> EmptyMap, index |-> <<>>]

NoTable == [cols |-> <<>>, data |-> EmptyMap, dtype |-> EmptyMap, geometry |-> <<>>, index |-> <<>>]

NoCall == [format |-> <<>>, kwargs |-> EmptyMap]

ReturnedNone == [isNone |-> TRUE, table |-> NoTable]

Returned(t) == [isNone |-> FALSE, table |-> t]

Init ==
    /\ gdf \in TableInputs
    /\ pc = "idle"
    /\ call = NoCall
    /\ df = NoFrame
    /\ k = 0
    /\ disk = NoFile
    /\ handles = {}
    /\ raised = "none"
    /\ rcall = NoCall
    /\ loaded = EmptyMap
    /\ ret = ReturnedNone

(***************************************************************************)
(* to_file (lines 437-441)                                                 *)
(***************************************************************************)
ToFile ==
    /\ pc = "idle"
    /\ \E c \in WriteCalls :
          /\ call' = c
          /\ pc' = IF Lower(c.format) \in HdfFormats THEN "to_hdf"
                   ELSE IF Lower(c.format) \in NcFormats THEN "to_nc"
                   ELSE "returned"
    /\ UNCHANGED <<gdf, df, k, disk, handles, raised, rcall, loaded, ret>>


(***************************************************************************)
(* Steps shared by the three writers                                       *)
(***************************************************************************)
\* kwargs of the running call after the setdefault lines of its writer
WriterKwargs ==
    SetDefault(SetDefault(call.kwargs, "parameters", PyNone), "regions", <<>>)

SRparams ==
    <<"H_min_win", "atl08_class", "ats", "cnf", "cnt", "len",
      "maxi", "res", "sigma_r_max", "srt">>

\* TryParameter with a default in place of the exception: a name the
\* dictionary lacks is written as 0.
TryParameterWithDefault(parameters, p) ==
    IF parameters.isNone
    THEN [ok |-> FALSE, value |-> 0]
    ELSE [ok |-> TRUE,
          value |-> IF p \in DOMAIN parameters.map THEN parameters.map[p] ELSE 0]

\* kwargs['parameters'][p] inside try/except: subscripting None raises
\* TypeError and a missing key raises KeyError; both are swallowed.
TryParameter(parameters, p) ==
    IF parameters.isNone \/ p \notin DOMAIN parameters.map
    THEN [ok |-> FALSE, value |-> 0]
    ELSE [ok |-> TRUE, value |-> parameters.map[p]]

\* for p in SRparams: try: setattr(fileID, p, kwargs['parameters'][p])
\* (lines 201-207, 302-308, 364-370), from the i-th name on.
RECURSIVE SetParameterAttrs(_, _, _)
SetParameterAttrs(attrs, parameters, i) ==
    IF i > Len(SRparams)
    THEN attrs
    ELSE LET got == TryParameter(parameters, SRparams[i])
         IN  SetParameterAttrs(
                 IF got.ok THEN Put(attrs, SRparams[i], got.value) ELSE attrs,
                 parameters, i + 1)

\* for i,poly in enumerate(kwargs['regions']) (lines 209-212, 310-313,
\* 372-375), from the i-th polygon (counted from 1) on.
RECURSIVE SetRegionAttrs(_, _, _)
SetRegionAttrs(attrs, regions, i) ==
    IF i > Len(regions)
    THEN attrs
    ELSE LET xy == coordinates(regions[i])
         IN  SetRegionAttrs(
                 Put(Put(attrs, PolyAttrName(i - 1, "x"), xy[1]),
                     PolyAttrName(i - 1, "y"), xy[2]),
                 regions, i + 1)

\* fileID.<name> = attributes[<name>] for the names of lines 188-196 and
\* 351-359.
SetFileAttrs(attrs, attributes, names) ==
    [x \in DOMAIN attrs \cup names |-> IF x \in names THEN attributes[x] ELSE attrs[x]]

FileAttrNames ==
    {"featureType", "title", "reference", "date_created", "geospatial_lat_units",
     "geospatial_lon_units", "geospatial_ellipsoid", "date_type", "time_type"}

\* The frame of lines 170-173 and 266-269.
Flatten(g) == AppendLatLon(DropGeometry(g).result, g.geometry)

(***************************************************************************)
(* to_nc (lines 160-218)                                                   *)
(***************************************************************************)
\* nc[:] = values on a netCDF3 variable: elements are stored big-endian.
StoreBigEndian(values) ==
    [ndim |-> 1, byteorder |-> ">", mem |-> [i \in 1..Len(values) |-> WordsOf(values[i])]]

\* lines 161-168: defaults, schema, netcdf_file(filename, 'w', version=2)
ToNcOpen ==
    /\ pc = "to_nc"
    /\ disk' = NewFile("nc")
    /\ handles' = handles \cup {"fileID"}
    /\ pc' = "nc_flatten"
    /\ UNCHANGED <<gdf, call, df, k, raised, rcall, loaded, ret>>

\* lines 170-175: the dataframe and the dimension
ToNcFlatten ==
    /\ pc = "nc_flatten"
    /\ gdf' = DropGeometry(gdf).self
    /\ df' = Flatten(gdf)
    /\ IF "delta_time" \in DOMAIN df'.data
       THEN /\ disk' = [disk EXCEPT !.dims = Put(@, "delta_time", Len(df'.data["delta_time"]))]
            /\ pc' = "nc_vars"
            /\ k' = 1
            /\ UNCHANGED raised
       ELSE /\ pc' = "raised"
            /\ raised' = "KeyError"
            /\ UNCHANGED <<disk, k>>
    /\ UNCHANGED <<call, handles, rcall, loaded, ret>>

\* lines 177-186, one pass of the loop: the variable is created and filled,
\* then its attributes are looked up in the schema.
ToNcVariable ==
    /\ pc = "nc_vars"
    /\ k <= Len(df.cols)
    /\ LET key   == df.cols[k]
           val   == df.data[key]
           var   == IF IsUnsigned(df.dtype[key])
                    THEN [type  |-> "i4",
                          data  |-> StoreBigEndian([i \in 1..Len(val) |-> AsTypeInt32(val[i])]),
                          attrs |-> EmptyMap]
                    ELSE [type  |-> df.dtype[key],
                          data  |-> StoreBigEndian(val),
                          attrs |-> EmptyMap]
           items == SchemaItems(get_attributes, key)
       IN  IF items.raises = "none"
           THEN /\ disk' = [disk EXCEPT !.order = Append(@, key),
                                        !.vars = Put(@, key, [var EXCEPT !.attrs = items.items])]
                /\ k' = k + 1
                /\ UNCHANGED <<pc, raised>>
           ELSE /\ disk' = [disk EXCEPT !.order = Append(@, key),
                                        !.vars = Put(@, key, var)]
                /\ pc' = "raised"
                /\ raised' = items.raises
                /\ UNCHANGED k
    /\ UNCHANGED <<gdf, call, df, handles, rcall, loaded, ret>>

\* lines 188-196
ToNcFileAttrs ==
    /\ pc = "nc_vars"
    /\ k > Len(df.cols)
    /\ disk' = [disk EXCEPT !.attrs = SetFileAttrs(@, get_attributes, FileAttrNames)]
    /\ pc' = "nc_params"
    /\ UNCHANGED <<gdf, call, df, k, handles, raised, rcall, loaded, ret>>

\* lines 198-207
ToNcParams ==
    /\ pc = "nc_params"
    /\ disk' = [disk EXCEPT !.attrs = SetParameterAttrs(@, WriterKwargs["parameters"], 1)]
    /\ pc' = "nc_regions"
    /\ UNCHANGED <<gdf, call, df, k, handles, raised, rcall, loaded, ret>>

\* lines 209-212
ToNcRegions ==
    /\ pc = "nc_regions"
    /\ disk' = [disk EXCEPT !.attrs = SetRegionAttrs(@, WriterKwargs["regions"], 1)]
    /\ pc' = "nc_close"
    /\ UNCHANGED <<gdf, call, df, k, handles, raised, rcall, loaded, ret>>

\* line 218
ToNcClose ==
    /\ pc = "nc_close"
    /\ handles' = handles \ {"fileID"}
    /\ pc' = "returned"
    /\ UNCHANGED <<gdf, call, df, k, disk, raised, rcall, loaded, ret>>

to_nc ==
    \/ ToNcOpen
    \/ ToNcFlatten
    \/ ToNcVariable
    \/ ToNcFileAttrs
    \/ ToNcParams
    \/ ToNcRegions
    \/ ToNcClose

(***************************************************************************)
(* to_hdf (lines 257-279)                                                  *)
(***************************************************************************)
\* The whole of to_hdf up to the call of the driver's writer. A driver that
\* is neither 'pytables' nor 'h5py' falls through both branches.
ToHdf ==
    /\ pc = "to_hdf"
    /\ gdf' = DropGeometry(gdf).self
    /\ df' = Flatten(gdf)
    /\ LET driver == Lower(SetDefault(call.kwargs, "driver", PyTablesDriver)["driver"])
       IN  pc' = IF driver = PyTablesDriver THEN "pt_table"
                 ELSE IF driver = H5pyDriver THEN "h5_open"
                 ELSE "returned"
    /\ UNCHANGED <<call, k, disk, handles, raised, rcall, loaded, ret>>

(***************************************************************************)
(* write_pytables (lines 281-319)                                          *)
(***************************************************************************)
\* pandas' file open modes on the blocks and attributes already in the
\* file: 'w' starts an empty file, 'a' keeps what is there.
OpenHDFStore(file, mode) == IF mode = "w" THEN NewFile("pytables") ELSE file

\* HDFStore(filename, mode='w'): the reopen starts the file anew
ReopenTruncating(file) == OpenHDFStore(file, "w")

\* geopandas.pd.HDFStore(filename, mode='a') of line 289
ReopenForAttrs(file) == OpenHDFStore(file, "a")

\* line 287: df.to_hdf(filename, 'sliderule_segments', format="table",
\* mode="w") opens the file, writes the block and closes the file.
PtWriteTable ==
    /\ pc = "pt_table"
    /\ disk' = [OpenHDFStore(disk, "w") EXCEPT !.blocks = Put(@, "sliderule_segments", df)]
    /\ pc' = "pt_between"
    /\ UNCHANGED <<gdf, call, df, k, handles, raised, rcall, loaded, ret>>

\* line 289
PtReopen ==
    /\ pc = "pt_between"
    /\ disk' = ReopenForAttrs(disk)
    /\ handles' = handles \cup {"fileID"}
    /\ pc' = "pt_attrs"
    /\ UNCHANGED <<gdf, call, df, k, raised, rcall, loaded, ret>>

\* lines 290-297: TITLE takes attributes['title']; featureType is not set.
PtFileAttrs ==
    /\ pc = "pt_attrs"
    /\ disk' = [disk EXCEPT !.attrs =
                   Put(SetFileAttrs(@, get_attributes, FileAttrNames \ {"featureType", "title"}),
                       "TITLE", get_attributes["title"])]
    /\ pc' = "pt_params"
    /\ UNCHANGED <<gdf, call, df, k, handles, raised, rcall, loaded, ret>>

\* lines 299-308
PtParams ==
    /\ pc = "pt_params"
    /\ disk' = [disk EXCEPT !.attrs = SetParameterAttrs(@, WriterKwargs["parameters"], 1)]
    /\ pc' = "pt_regions"
    /\ UNCHANGED <<gdf, call, df, k, handles, raised, rcall, loaded, ret>>

\* lines 310-313
PtRegions ==
    /\ pc = "pt_regions"
    /\ disk' = [disk EXCEPT !.attrs = SetRegionAttrs(@, WriterKwargs["regions"], 1)]
    /\ pc' = "pt_close"
    /\ UNCHANGED <<gdf, call, df, k, handles, raised, rcall, loaded, ret>>

\* line 319
PtClose ==
    /\ pc = "pt_close"
    /\ handles' = handles \ {"fileID"}
    /\ pc' = "returned"
    /\ UNCHANGED <<gdf, call, df, k, disk, raised, rcall, loaded, ret>>

\* The process stops after line 287 and before line 319 has run: its
\* handle goes with it, the file stays as it is.
PtCrash ==
    /\ pc \in {"pt_between", "pt_attrs", "pt_params", "pt_regions", "pt_close"}
    /\ handles' = {}
    /\ pc' = "crashed"
    /\ UNCHANGED <<gdf, call, df, k, disk, raised, rcall, loaded, ret>>

write_pytables ==
    \/ PtWriteTable
    \/ PtReopen
    \/ PtFileAttrs
    \/ PtParams
    \/ PtRegions
    \/ PtClose
    \/ PtCrash

(***************************************************************************)
(* write_h5py (lines 322-381)                                              *)
(***************************************************************************)
\* fileID.create_dataset(key, val.shape, data=val, dtype=val.dtype,
\* compression='gzip'): the cells as they are (gzip is lossless).
CreateDataset(val, dtype) ==
    [type |-> dtype, data |-> val, compression |-> "gzip", scale |-> "", attrs |-> EmptyMap]

\* line 328
H5Open ==
    /\ pc = "h5_open"
    /\ disk' = NewFile("h5py")
    /\ handles' = handles \cup {"fileID"}
    /\ pc' = "h5_delta_time"
    /\ UNCHANGED <<gdf, call, df, k, raised, rcall, loaded, ret>>

\* lines 332-337: the delta_time dataset and its attributes
H5DeltaTime ==
    /\ pc = "h5_delta_time"
    /\ LET key == "delta_time"
       IN  IF key \in DOMAIN df.data
           THEN /\ disk' = [disk EXCEPT
                              !.order = Append(@, key),
                              !.vars = Put(@, key,
                                  [CreateDataset(df.data[key], df.dtype[key])
                                      EXCEPT !.attrs = SchemaItems(get_attributes, key).items])]
                /\ pc' = "h5_vars"
                /\ k' = 1
                /\ UNCHANGED raised
           ELSE /\ pc' = "raised"
                /\ raised' = "KeyError"
                /\ UNCHANGED <<disk, k>>
    /\ UNCHANGED <<gdf, call, df, handles, rcall, loaded, ret>>

\* lines 339-349, one pass of the loop
H5Variable ==
    /\ pc = "h5_vars"
    /\ k <= Len(df.cols)
    /\ LET key   == df.cols[k]
           var   == [CreateDataset(df.data[key], df.dtype[key]) EXCEPT !.scale = "delta_time"]
           items == SchemaItems(get_attributes, key)
       IN  IF key = "delta_time"
           THEN /\ k' = k + 1
                /\ UNCHANGED <<disk, pc, raised>>
           ELSE IF items.raises = "none"
           THEN /\ disk' = [disk EXCEPT !.order = Append(@, key),
                                        !.vars = Put(@, key, [var EXCEPT !.attrs = items.items])]
                /\ k' = k + 1
                /\ UNCHANGED <<pc, raised>>
           ELSE /\ disk' = [disk EXCEPT !.order = Append(@, key),
                                        !.vars = Put(@, key, var)]
                /\ pc' = "raised"
                /\ raised' = items.raises
                /\ UNCHANGED k
    /\ UNCHANGED <<gdf, call, df, handles, rcall, loaded, ret>>

\* lines 351-359
H5FileAttrs ==
    /\ pc = "h5_vars"
    /\ k > Len(df.cols)
    /\ disk' = [disk EXCEPT !.attrs = SetFileAttrs(@, get_attributes, FileAttrNames)]
    /\ pc' = "h5_params"
    /\ UNCHANGED <<gdf, call, df, k, handles, raised, rcall, loaded, ret>>

\* lines 361-370
H5Params ==
    /\ pc = "h5_params"
    /\ disk' = [disk EXCEPT !.attrs = SetParameterAttrs(@, WriterKwargs["parameters"], 1)]
    /\ pc' = "h5_regions"
    /\ UNCHANGED <<gdf, call, df, k, handles, raised, rcall, loaded, ret>>

\* lines 372-375
H5Regions ==
    /\ pc = "h5_regions"
    /\ disk' = [disk EXCEPT !.attrs = SetRegionAttrs(@, WriterKwargs["regions"], 1)]
    /\ pc' = "h5_close"
    /\ UNCHANGED <<gdf, call, df, k, handles, raised, rcall, loaded, ret>>

\* line 381
H5Close ==
    /\ pc = "h5_close"
    /\ handles' = handles \ {"fileID"}
    /\ pc' = "returned"
    /\ UNCHANGED <<gdf, call, df, k, disk, raised, rcall, loaded, ret>>

write_h5py ==
    \/ H5Open
    \/ H5DeltaTime
    \/ H5Variable
    \/ H5FileAttrs
    \/ H5Params
    \/ H5Regions
    \/ H5Close

(***************************************************************************)
(* from_file (lines 444-448) and from_hdf (lines 384-394)                  *)
(***************************************************************************)
ReadCalls ==
    {c \in [format : ReadFormatInputs, kwargs : DriverInputs] :
        "driver" \in DOMAIN c.kwargs => Lower(c.format) \in HdfFormats}

\* The reader a call ends in: "nc", "pytables", "h5py", or "none" when the
\* format or the driver matches no branch.
ReaderOf(c) ==
    LET driver == Lower(SetDefault(c.kwargs, "driver", PyTablesDriver)["driver"])
    IN  IF Lower(c.format) \in HdfFormats
        THEN IF driver = PyTablesDriver THEN "pytables"
             ELSE IF driver = H5pyDriver THEN "h5py"
             ELSE "none"
        ELSE IF Lower(c.format) \in NcFormats THEN "nc"
        ELSE "none"

\* from_file is called once to_file is over (or its process has stopped),
\* with a format that names the container on disk or names none.
FromFile ==
    /\ pc \in {"returned", "crashed"}
    /\ \E c \in ReadCalls :
          /\ ReaderOf(c) \in {"none", disk.kind} \/ disk.kind = "none"
          /\ rcall' = c
          /\ pc' = CASE ReaderOf(c) = "nc" -> "rnc_open"
                     [] ReaderOf(c) = "pytables" -> "rpt"
                     [] ReaderOf(c) = "h5py" -> "rh5_open"
                     [] OTHER -> "r_returned"
    /\ ret' = ReturnedNone
    /\ raised' = "none"
    /\ UNCHANGED <<gdf, call, df, k, disk, handles, loaded>>

\* Lines 238-249 and 418-429 on the dictionary read from the file: the time
\* column, the geometry, the frame. `raises` is the exception of a missing
\* variable, or of points_from_xy handed 0-d arrays.
BuildFrame(order, data, dtype, ndim) ==
    IF "delta_time" \notin Range(order)
    THEN [raises |-> "KeyError", table |-> NoTable]
    ELSE IF "longitude" \notin Range(order) \/ "latitude" \notin Range(order)
    THEN [raises |-> "KeyError", table |-> NoTable]
    ELSE IF ndim["longitude"] = 0 \/ ndim["latitude"] = 0
    THEN [raises |-> "TypeError", table |-> NoTable]
    ELSE LET keep == SelectSeq(order, LAMBDA c : c \notin {"longitude", "latitude"})
         IN  [raises |-> "none",
              table  |-> [cols     |-> keep,
                          data     |-> [c \in Range(keep) |-> data[c]],
                          dtype    |-> [c \in Range(keep) |-> dtype[c]],
                          geometry |-> points_from_xy(data["longitude"], data["latitude"]),
                          index    |-> TimeColumn(data["delta_time"])]]

\* gdf.set_index('time', inplace=True); gdf.sort_index(inplace=True)
SortIndex(t, p) == Reorder(t, p)

(***************************************************************************)
(* from_nc (lines 221-254)                                                 *)
(***************************************************************************)
\* lines 230-234 on one variable's data
LoadNcVariable(data) ==
    LET flattened == Squeeze(data, Len(data.mem))
    IN  IF flattened.byteorder = ">"
        THEN NewByteOrder(ByteSwap(flattened))
        ELSE flattened

\* line 223; a path with no file makes the open fail
FromNcOpen ==
    /\ pc = "rnc_open"
    /\ IF disk.kind = "none"
       THEN /\ pc' = "r_raised"
            /\ raised' = "IOError"
            /\ UNCHANGED handles
       ELSE /\ pc' = "rnc_load"
            /\ handles' = handles \cup {"fileID"}
            /\ UNCHANGED raised
    /\ UNCHANGED <<gdf, call, df, k, disk, rcall, loaded, ret>>

\* lines 226-234
FromNcLoad ==
    /\ pc = "rnc_load"
    /\ loaded' = [order |-> disk.order,
                  type  |-> [c \in DOMAIN disk.vars |-> disk.vars[c].type],
                  arr   |-> [c \in DOMAIN disk.vars |-> LoadNcVariable(disk.vars[c].data)]]
    /\ pc' = "rnc_close"
    /\ UNCHANGED <<gdf, call, df, k, disk, handles, raised, rcall, ret>>

\* lines 236-237
FromNcClose ==
    /\ pc = "rnc_close"
    /\ handles' = handles \ {"fileID"}
    /\ pc' = "rnc_build"
    /\ UNCHANGED <<gdf, call, df, k, disk, raised, rcall, loaded, ret>>

\* lines 238-254
FromNcBuild ==
    /\ pc = "rnc_build"
    /\ LET built == BuildFrame(loaded.order,
                               [c \in DOMAIN loaded.arr |-> ArrayValues(loaded.arr[c])],
                               loaded.type,
                               [c \in DOMAIN loaded.arr |-> loaded.arr[c].ndim])
       IN  IF built.raises = "none"
           THEN /\ \E p \in SortingPerms(built.table.index) :
                      ret' = Returned(SortIndex(built.table, p))
                /\ pc' = "r_returned"
                /\ UNCHANGED raised
           ELSE /\ pc' = "r_raised"
                /\ raised' = built.raises
                /\ UNCHANGED ret
    /\ UNCHANGED <<gdf, call, df, k, disk, handles, rcall, loaded>>

from_nc ==
    \/ FromNcOpen
    \/ FromNcLoad
    \/ FromNcClose
    \/ FromNcBuild

(***************************************************************************)
(* read_pytables (lines 397-405)                                           *)
(***************************************************************************)
\* df.drop(columns=['latitude','longitude'])
DropLatLon(d) ==
    LET keep == SelectSeq(d.cols, LAMBDA c : c \notin {"latitude", "longitude"})
    IN  [cols  |-> keep,
         data  |-> [c \in Range(keep) |-> d.data[c]],
         dtype |-> [c \in Range(keep) |-> d.dtype[c]],
         index |-> d.index]

\* pd.read_hdf opens the file, reads its one block with the index it was
\* written with, and closes the file; then the geometry is rebuilt.
ReadPytables ==
    /\ pc = "rpt"
    /\ IF disk.kind = "none"
       THEN /\ pc' = "r_raised"
            /\ raised' = "IOError"
            /\ UNCHANGED ret
       ELSE LET d == disk.blocks["sliderule_segments"]
                geometry == points_from_xy(d.data["longitude"], d.data["latitude"])
            IN  /\ ret' = Returned(DropLatLon(d) @@ [geometry |-> geometry])
                /\ pc' = "r_returned"
                /\ UNCHANGED raised
    /\ UNCHANGED <<gdf, call, df, k, disk, handles, rcall, loaded>>

(***************************************************************************)
(* read_h5py (lines 408-434)                                               *)
(***************************************************************************)
\* line 410
H5ReadOpen ==
    /\ pc = "rh5_open"
    /\ IF disk.kind = "none"
       THEN /\ pc' = "r_raised"
            /\ raised' = "IOError"
            /\ UNCHANGED handles
       ELSE /\ pc' = "rh5_load"
            /\ handles' = handles \cup {"fileID"}
            /\ UNCHANGED raised
    /\ UNCHANGED <<gdf, call, df, k, disk, rcall, loaded, ret>>

\* lines 412-415: h5[key] = val[:].squeeze()
H5ReadLoad ==
    /\ pc = "rh5_load"
    /\ loaded' = [order |-> disk.order,
                  type  |-> [c \in DOMAIN disk.vars |-> disk.vars[c].type],
                  arr   |-> [c \in DOMAIN disk.vars |->
                               Squeeze([ndim |-> 1, data |-> disk.vars[c].data],
                                       Len(disk.vars[c].data))]]
    /\ pc' = "rh5_close"
    /\ UNCHANGED <<gdf, call, df, k, disk, handles, raised, rcall, ret>>

\* line 417
H5ReadClose ==
    /\ pc = "rh5_close"
    /\ handles' = handles \ {"fileID"}
    /\ pc' = "rh5_build"
    /\ UNCHANGED <<gdf, call, df, k, disk, raised, rcall, loaded, ret>>

\* lines 418-434
H5ReadBuild ==
    /\ pc = "rh5_build"
    /\ LET built == BuildFrame(loaded.order,
                               [c \in DOMAIN loaded.arr |-> loaded.arr[c].data],
                               loaded.type,
                               [c \in DOMAIN loaded.arr |-> loaded.arr[c].ndim])
       IN  IF built.raises = "none"
           THEN /\ \E p \in SortingPerms(built.table.index) :
                      ret' = Returned(SortIndex(built.table, p))
                /\ pc' = "r_returned"
                /\ UNCHANGED raised
           ELSE /\ pc' = "r_raised"
                /\ raised' = built.raises
                /\ UNCHANGED ret
    /\ UNCHANGED <<gdf, call, df, k, disk, handles, rcall, loaded>>

read_h5py ==
    \/ H5ReadOpen
    \/ H5ReadLoad
    \/ H5ReadClose
    \/ H5ReadBuild

Next ==
    \/ ToFile
    \/ to_nc
    \/ ToHdf
    \/ write_pytables
    \/ write_h5py
    \/ FromFile
    \/ from_nc
    \/ ReadPytables
    \/ read_h5py

Spec == Init /\ [][Next]_vars


(***************************************************************************)
(* Vocabulary of the properties                                            *)
(***************************************************************************)
Int32Max == [hi |-> HalfWord \div 2 - 1, lo |-> HalfWord - 1]

\* Every cell of every unsigned column is at most 2^31 - 1.
UnsignedFitInt32(t) ==
    \A c \in Range(t.cols) :
        IsUnsigned(t.dtype[c]) =>
            \A i \in 1..Len(t.data[c]) : t.data[c][i][1] <= Int32Max.hi

\* The number a cell stands for, whatever its dtype: sign and magnitude,
\* the magnitude as two 16-bit words (of -v - 1 for a negative v).
NumberOf(dtype, cell) ==
    IF IsUnsigned(dtype) THEN [neg |-> FALSE, words |-> cell]
    ELSE IF cell >= 0 THEN [neg |-> FALSE, words |-> <<cell \div HalfWord, cell % HalfWord>>]
    ELSE [neg |-> TRUE, words |-> <<(-(cell + 1)) \div HalfWord, (-(cell + 1)) % HalfWord>>]

RowAt(t, i) ==
    [values |-> [c \in Range(t.cols) |-> NumberOf(t.dtype[c], t.data[c][i])],
     point  |-> t.geometry[i]]

RowBag(t) ==
    LET rows == {RowAt(t, i) : i \in 1..NRows(t)}
    IN  [r \in rows |-> Cardinality({i \in 1..NRows(t) : RowAt(t, i) = r})]

\* Same columns and the same rows, in any order.
SameRows(a, b) == Range(a.cols) = Range(b.cols) /\ RowBag(a) = RowBag(b)

WroteNc == Lower(call.format) \in NcFormats

WroteHdf(driver) ==
    /\ Lower(call.format) \in HdfFormats
    /\ Lower(SetDefault(call.kwargs, "driver", PyTablesDriver)["driver"]) = driver

ReadOver == pc \in {"r_returned", "r_raised"}

\* The round trip through one container: to_file wrote the file and
\* from_file returned the caller's rows in ascending order of time.
RoundTrip(reader) ==
    /\ pc # "raised"
    /\ (ReadOver /\ ReaderOf(rcall) = reader) =>
          /\ pc = "r_returned"
          /\ ~ret.isNone
          /\ SameRows(ret.table, gdf)
          /\ IsSorted(ret.table.index)

\* C1: for every table whose unsigned columns hold values within the signed
\* 32-bit range, to_file(T, path, 'nc') followed by from_file(path, 'nc')
\* returns a table with the same rows as T, its time index ascending.
C1_ClassicRoundTrip ==
    (WroteNc /\ UnsignedFitInt32(gdf)) => RoundTrip("nc")

\* C2: for every table, in any row order, and each driver of 'pytables' and
\* 'h5py', to_file(T, path, 'hdf', driver) followed by from_file(path,
\* 'hdf', driver) returns a table with the same rows as T, its time index
\* ascending.
C2_HierarchicalRoundTrip ==
    /\ WroteHdf(PyTablesDriver) => RoundTrip("pytables")
    /\ WroteHdf(H5pyDriver) => RoundTrip("h5py")

\* C3: to_nc writes every column as a variable of the same name and gives it
\* the schema's attributes only if the schema has an entry for the name; a
\* column with no entry, or named like a file level key, is written too and
\* the call does not raise.
C3_ColumnsWithoutSchemaEntry ==
    WroteNc =>
        /\ pc # "raised"
        /\ pc \in {"nc_params", "nc_regions", "nc_close", "returned"} =>
              /\ Range(disk.order) = Range(df.cols)
              /\ \A c \in Range(df.cols) :
                    disk.vars[c].attrs =
                        IF c \in DOMAIN VariableAttributes
                        THEN VariableAttributes[c]
                        ELSE EmptyMap

\* C4: a format whose lower-cased value is none of 'hdf', 'hdf5', 'h5',
\* 'netcdf', 'nc' makes to_file and from_file end with an error instead of
\* returning without having done anything.
C4_UnrecognizedFormatRaises ==
    /\ (pc = "returned" /\ Lower(call.format) \notin HdfFormats \cup NcFormats)
          => raised # "none"
    /\ (pc = "r_returned" /\ Lower(rcall.format) \notin HdfFormats \cup NcFormats)
          => raised # "none"


\* The parameters dictionary handed to the writer: its keys, none for None.
SuppliedParameters == WriterKwargs["parameters"].map

\* Positions of a writer after its loop over SRparams.
PastParameters ==
    \/ pc \in {"nc_regions", "nc_close", "pt_regions", "pt_close", "h5_regions", "h5_close"}
    \/ pc = "returned" /\ disk.kind # "none"

\* C5: in each writer, the processing parameters written as file level
\* attributes are exactly the supplied names that are among the ten
\* recognized ones, each with the supplied value; other supplied names and
\* recognized names not supplied are not written; no parameters or None
\* writes none, and the loop raises nothing.
C5_ParameterSelection ==
    PastParameters =>
        /\ raised = "none"
        /\ DOMAIN disk.attrs \cap (Range(SRparams) \cup DOMAIN SuppliedParameters)
              = DOMAIN SuppliedParameters \cap
                   {"H_min_win", "atl08_class", "ats", "cnf", "cnt", "len",
                    "maxi", "res", "sigma_r_max", "srt"}
        /\ \A p \in DOMAIN disk.attrs \cap DOMAIN SuppliedParameters :
              disk.attrs[p] = SuppliedParameters[p]

\* Four of the ten names were supplied with a fifth, unrecognized one, and
\* the netCDF writer returned with the four as attributes.
C5_Witness ==
    /\ pc = "returned"
    /\ disk.kind = "nc"
    /\ Cardinality(DOMAIN SuppliedParameters) = 5
    /\ Cardinality(DOMAIN disk.attrs \cap Range(SRparams)) = 4
    /\ "foo" \notin DOMAIN disk.attrs

\* Positions of a writer after its loop over the regions.
PastRegions ==
    \/ pc \in {"nc_close", "pt_close", "h5_close"}
    \/ pc = "returned" /\ disk.kind # "none"

\* File level attributes that are neither schema attributes nor parameters.
PolyAttrs ==
    DOMAIN disk.attrs \ (FileAttrNames \cup {"TITLE"} \cup Range(SRparams))

\* C6: for a regions list of n polygons each writer stores exactly the
\* attributes poly{i}_x and poly{i}_y for i = 0..n-1, poly{i}_x being the
\* 'lon' values and poly{i}_y the 'lat' values of the polygon at position i,
\* in the polygon's point order; no regions stores none.
C6_RegionAttributes ==
    PastRegions =>
        LET regions == WriterKwargs["regions"]
            n == Len(regions)
        IN  /\ PolyAttrs = {PolyAttrName(i, axis) : i \in 0..(n - 1), axis \in {"x", "y"}}
            /\ \A i \in 0..(n - 1) :
                  /\ Len(disk.attrs[PolyAttrName(i, "x")]) = Len(regions[i + 1])
                  /\ Len(disk.attrs[PolyAttrName(i, "y")]) = Len(regions[i + 1])
                  /\ \A j \in 1..Len(regions[i + 1]) :
                        /\ disk.attrs[PolyAttrName(i, "x")][j] = regions[i + 1][j].lon
                        /\ disk.attrs[PolyAttrName(i, "y")][j] = regions[i + 1][j].lat

\* Two polygons of three points were written by the h5py writer.
C6_Witness ==
    /\ pc = "returned"
    /\ disk.kind = "h5py"
    /\ Len(WriterKwargs["regions"]) = 2
    /\ {"poly0_x", "poly0_y", "poly1_x", "poly1_y"} \subseteq DOMAIN disk.attrs
    /\ Len(disk.attrs["poly1_y"]) = 3

\* from_nc or read_h5py returned a table.
EpochReaderReturned ==
    /\ pc = "r_returned"
    /\ ReaderOf(rcall) \in {"nc", "h5py"}
    /\ ~ret.isNone

\* 2018-01-01T00:00:00 and 2018-01-02T00:00:00 in seconds since 1970-01-01
Jan1st2018 == 17532 * 86400

Jan2nd2018 == 17533 * 86400

\* The rows of a table as delta_time and point, with how often each occurs.
TimedRows(t) ==
    LET row(i) == <<t.data["delta_time"][i], t.geometry[i]>>
        rows == {row(i) : i \in 1..NRows(t)}
    IN  [r \in rows |-> Cardinality({i \in 1..NRows(t) : row(i) = r})]

\* C7: every row returned by from_nc and read_h5py has the time index
\* 2018-01-01T00:00:00 plus its delta_time seconds (delta_time * 10^9 ns):
\* 0 gives 2018-01-01T00:00:00.000000000, 86400 gives
\* 2018-01-02T00:00:00.000000000; after the sort every time is still on the
\* row whose delta_time made it.
C7_EpochCorrectness ==
    EpochReaderReturned =>
        LET t == ret.table
        IN  /\ \A i \in 1..NRows(t) :
                  /\ t.index[i] = [sec |-> Jan1st2018 + t.data["delta_time"][i], nsec |-> 0]
                  /\ t.data["delta_time"][i] = 0 => t.index[i] = [sec |-> Jan1st2018, nsec |-> 0]
                  /\ t.data["delta_time"][i] = 86400 => t.index[i] = [sec |-> Jan2nd2018, nsec |-> 0]
            /\ TimedRows(t) = TimedRows(gdf)

\* A table written with delta_time 86400 before delta_time 0 came back from
\* from_nc with the two rows in ascending order of time.
C7_Witness ==
    /\ EpochReaderReturned
    /\ ReaderOf(rcall) = "nc"
    /\ gdf.data["delta_time"] = <<86400, 0>>
    /\ ret.table.data["delta_time"] = <<0, 86400>>
    /\ ret.table.index = <<[sec |-> Jan1st2018, nsec |-> 0], [sec |-> Jan2nd2018, nsec |-> 0]>>

\* C8: no step of to_file, whatever the format, driver, parameters and
\* regions, changes the caller's table: its columns, values, geometry and
\* index stay as they were; latitude and longitude are added, and geometry
\* is removed, on the writer's own frame only.
C8_CallerTableUnchanged == [][gdf' = gdf]_vars

\* to_file returned after writing the flattened frame, and the caller's
\* table still has its geometry and no latitude or longitude column.
C8_Witness ==
    /\ pc = "returned"
    /\ disk.kind # "none"
    /\ {"latitude", "longitude"} \subseteq Range(df.cols)
    /\ "geometry" \in DOMAIN gdf
    /\ {"latitude", "longitude"} \cap Range(gdf.cols) = {}

\* C9: every file handle opened by to_file or from_file is closed when the
\* call ends, by return or by exception.
C9_HandlesReleased ==
    pc \in {"returned", "raised", "r_returned", "r_raised"} => handles = {}

\* Positions from the end of write_pytables' first phase on, the reading
\* of the file included.
PastPhaseOne ==
    /\ disk.kind = "pytables"
    /\ pc # "pt_table"

\* C10: write_pytables has written the whole block 'sliderule_segments' and
\* closed the file before it reopens the file for the root attributes; no
\* handle is open between the two phases; from the end of phase one on,
\* through a stop before or during phase two, the file holds the complete
\* block, and read_pytables returns the full table.
C10_TwoPhaseWrite ==
    /\ pc = "pt_between" => (handles = {} /\ disk.kind = "pytables")
    /\ PastPhaseOne =>
          /\ DOMAIN disk.blocks = {"sliderule_segments"}
          /\ disk.blocks["sliderule_segments"].cols = gdf.cols \o <<"latitude", "longitude">>
          /\ \A c \in Range(gdf.cols) :
                disk.blocks["sliderule_segments"].data[c] = gdf.data[c]
          /\ \A i \in 1..NRows(gdf) :
                /\ disk.blocks["sliderule_segments"].data["longitude"][i] = gdf.geometry[i][1]
                /\ disk.blocks["sliderule_segments"].data["latitude"][i] = gdf.geometry[i][2]
          /\ disk.blocks["sliderule_segments"].index = gdf.index
    /\ (PastPhaseOne /\ pc = "rpt") => handles = {}
    /\ (PastPhaseOne /\ ReadOver /\ ReaderOf(rcall) = "pytables") =>
          /\ pc = "r_returned"
          /\ ret = Returned(gdf)

\* The writer stopped between the phases, with no root attribute written,
\* and read_pytables returned the whole table.
C10_Witness ==
    /\ pc = "r_returned"
    /\ ReaderOf(rcall) = "pytables"
    /\ disk.kind = "pytables"
    /\ disk.attrs = EmptyMap
    /\ ret = Returned(gdf)


\* Columns of the writer's frame that to_nc has stored as variables.
StoredNcColumns ==
    IF WroteNc /\ disk.kind = "nc"
    THEN {c \in Range(df.cols) : c \in DOMAIN disk.vars}
    ELSE {}

\* C11: to_nc stores every unsigned integer column as a signed 32-bit
\* variable and every other column with its own type and its values as they
\* are; an unsigned v <= 2^31 - 1 is stored as v, a larger v as v modulo 2^32
\* read in two's complement, v - 2^32, which is negative and so differs from
\* v; neither case makes the column's pass of the loop raise.
C11_UnsignedDowncast ==
    \A c \in StoredNcColumns :
        LET stored == ArrayValues(disk.vars[c].data)
        IN  /\ Len(stored) = Len(df.data[c])
            /\ IF IsUnsigned(df.dtype[c])
               THEN /\ disk.vars[c].type = "i4"
                    /\ \A i \in 1..Len(stored) :
                          LET hi == df.data[c][i][1]
                              lo == df.data[c][i][2]
                          IN  IF hi <= 2^15 - 1
                              THEN /\ stored[i] = hi * 2^16 + lo
                                   /\ NumberOf("i4", stored[i]) = NumberOf(df.dtype[c], df.data[c][i])
                              ELSE /\ stored[i] = (hi - 2^16) * 2^16 + lo
                                   /\ stored[i] < 0
                                   /\ NumberOf("i4", stored[i]) # NumberOf(df.dtype[c], df.data[c][i])
                    /\ ~(pc = "raised" /\ df.cols[k] = c)
               ELSE /\ disk.vars[c].type = df.dtype[c]
                    /\ stored = df.data[c]

\* to_nc returned after storing a uint32 column holding 7 and 2^31: 7 is
\* stored as 7, 2^31 as -2^31.
C11_Witness ==
    /\ pc = "returned"
    /\ "segment_id" \in StoredNcColumns
    /\ df.data["segment_id"] = <<<<0, 7>>, <<2^15, 0>>>>
    /\ ArrayValues(disk.vars["segment_id"].data) = <<7, -2147483647 - 1>>
    /\ raised = "none"

=============================================================================
